---- MODULE Spec2Model ----
(***************************************************************************)
(* Model of the dithering engine (class Dithering) and the palette        *)
(* catalogue (class ColorPalettes) of the Interactive Image Dithering     *)
(* application.                                                            *)
(*                                                                         *)
(* Numbers.  JavaScript numbers that reach the engine are either bytes of  *)
(* a Uint8ClampedArray, integers, or (in bayer/ordered) bytes plus an      *)
(* offset 255*(2m+1-N^2)/(2*N^2), a multiple of 1/128.  A number handed to *)
(* a resolver is therefore held as an integer count of 1/128 ("Q7"); all   *)
(* sums and squares of such values are exact in binary64, so integer       *)
(* arithmetic computes what the code computes.  The luminance expression   *)
(* 0.299*r + 0.587*g + 0.114*b is NOT exact in binary64; it is evaluated   *)
(* with explicit binary64 rounding on multi-limb naturals (operators Big). *)
(* NaN stands for the JavaScript values NaN/undefined in arithmetic.       *)
(***************************************************************************)
EXTENDS Integers, Sequences, FiniteSets, TLC

\* ------------------------------------------------------------------ bounds
MaxPixels == 4          \* images have width*height <= MaxPixels
MaxStrip == 9           \* the two strip images have MaxStrip pixels
MaxPal == 3             \* palettes given to findClosestColor directly have <= MaxPal entries

\* ------------------------------------------------------- number encoding
Q7 == 128               \* resolver arguments are counted in units of 1/128
NaN == -1000000         \* NaN / undefined in arithmetic position

Min(a, b) == IF a < b THEN a ELSE b
Max(a, b) == IF a > b THEN a ELSE b

RECURSIVE Pow2(_)
Pow2(n) == IF n = 0 THEN 1 ELSE 2 * Pow2(n - 1)

\* the conversion of a Uint8Array store: truncate, wrap modulo 256
ToUint8Wrap(n, d) == IF n = NaN THEN 0 ELSE (n \div d) % 256

\* ToUint8Clamp of the rational n/d (d > 0): clamp to [0,255], round half to even.
\* This is the conversion every store into a Uint8ClampedArray performs.
ToUint8Clamp(n, d) ==
    IF n = NaN THEN 0
    ELSE LET q == n \div d
             r2 == 2 * (n % d)
             rounded == IF r2 < d THEN q
                        ELSE IF r2 > d THEN q + 1
                        ELSE IF q % 2 = 0 THEN q ELSE q + 1
         IN  Max(0, Min(255, rounded))

\* ----------------------------------------------------- JavaScript values
\* A value that may be null or an array of numbers (a colour, a palette entry).
JsNull == [tag |-> "null", val |-> << >>]
Arr(s) == [tag |-> "array", val |-> s]
MalformedUpToThree(color) == color.tag = "null" \/ Len(color.val) <= 3
MalformedNullOnly(v) == v.tag = "null"
\* `!v || v.length < 3`
Malformed(v) == v.tag = "null" \/ Len(v.val) < 3

\* ------------------------------------------- binary64 on multi-limb naturals
\* A natural is a little-endian sequence of NL limbs, each in 0..LIMB-1.
LIMB == 32768
LimbBits == 15
NL == 5
BigZero == [i \in 1..NL |-> 0]
BigPow2(s) == [i \in 1..NL |-> IF i = (s \div LimbBits) + 1 THEN Pow2(s % LimbBits) ELSE 0]

RECURSIVE BigMulFrom(_, _, _, _)
BigMulFrom(a, k, i, carry) ==
    IF i > NL THEN << >>
    ELSE LET t == a[i] * k + carry
         IN  <<t % LIMB>> \o BigMulFrom(a, k, i + 1, t \div LIMB)
BigMulSmall(a, k) == BigMulFrom(a, k, 1, 0)          \* a * k, 0 <= k < LIMB

RECURSIVE BigAddFrom(_, _, _, _)
BigAddFrom(a, b, i, carry) ==
    IF i > NL THEN << >>
    ELSE LET t == a[i] + b[i] + carry
         IN  <<t % LIMB>> \o BigAddFrom(a, b, i + 1, t \div LIMB)
BigAdd(a, b) == BigAddFrom(a, b, 1, 0)

RECURSIVE BigLessFrom(_, _, _)
BigLessFrom(a, b, i) ==
    IF i = 0 THEN FALSE
    ELSE IF a[i] # b[i] THEN a[i] < b[i]
    ELSE BigLessFrom(a, b, i - 1)
BigLess(a, b) == BigLessFrom(a, b, NL)

RECURSIVE IntBitLen(_)
IntBitLen(n) == IF n = 0 THEN 0 ELSE 1 + IntBitLen(n \div 2)
RECURSIVE BigBitLenFrom(_, _)
BigBitLenFrom(a, i) ==
    IF i = 0 THEN 0
    ELSE IF a[i] # 0 THEN (i - 1) * LimbBits + IntBitLen(a[i])
    ELSE BigBitLenFrom(a, i - 1)
BigBitLen(a) == BigBitLenFrom(a, NL)

BigBit(a, s) == (a[(s \div LimbBits) + 1] \div Pow2(s % LimbBits)) % 2
\* a mod 2^s
BigLow(a, s) ==
    [i \in 1..NL |-> IF i < (s \div LimbBits) + 1 THEN a[i]
                     ELSE IF i = (s \div LimbBits) + 1 THEN a[i] % Pow2(s % LimbBits)
                     ELSE 0]
\* a - (a mod 2^s)
BigHigh(a, s) ==
    [i \in 1..NL |-> IF i < (s \div LimbBits) + 1 THEN 0
                     ELSE IF i = (s \div LimbBits) + 1 THEN a[i] - (a[i] % Pow2(s % LimbBits))
                     ELSE a[i]]

\* Round to the nearest natural with at most 53 significant bits, ties to even:
\* the rounding of every binary64 multiplication and addition.
Mantissa == 53
BigRound53(a) ==
    LET n == BigBitLen(a)
        s == n - Mantissa
    IN  IF s <= 0 THEN a
        ELSE LET low  == BigLow(a, s)
                 half == BigPow2(s - 1)
                 up   == BigLess(half, low) \/ (low = half /\ BigBit(a, s) = 1)
             IN  IF up THEN BigAdd(BigHigh(a, s), BigPow2(s)) ELSE BigHigh(a, s)

\* The binary64 values of the literals 0.299, 0.587 and 0.114, times 2^56.
C299 == <<1572, 11010, 11534, 612, 0>>
C587 == <<784, 5505, 5767, 1202, 0>>
C114 == <<30409, 16252, 15466, 233, 0>>
GrayFrac == 63          \* Gray is counted in units of 2^-63 (2^-56 * 2^-7)

\* 0.299 * r + 0.587 * g + 0.114 * b in binary64, for Q7 arguments r,g,b >= 0.
Gray(r, g, b) ==
    LET pr == BigRound53(BigMulSmall(C299, r))
        pg == BigRound53(BigMulSmall(C587, g))
        pb == BigRound53(BigMulSmall(C114, b))
    IN  BigRound53(BigAdd(BigRound53(BigAdd(pr, pg)), pb))

\* gray < t for a number t
GrayLess(gray, t) ==
    IF t <= 0 THEN FALSE
    ELSE BigLess(gray, BigMulSmall(BigPow2(GrayFrac), t))

\* ------------------------------------------------------------ ColorPalettes
Black == Arr(<<0, 0, 0>>)
White == Arr(<<255, 255, 255>>)

monochrome == Arr(<<Black, White>>)
cga == Arr(<<Black, Arr(<<85, 255, 255>>), Arr(<<255, 85, 255>>), White>>)

\* webSafe(): three nested loops, r outer, g middle, b inner, each pushing
\* [Math.round(r*51), Math.round(g*51), Math.round(b*51)] (Math.round of an
\* integer is that integer).
WebSafeStep == 51
WebSafeLevels == 6
\* WebSafeB(r, g, b): what the b loop pushes from b on; WebSafeG, WebSafeR:
\* likewise for the g and the r loop.
RECURSIVE WebSafeB(_, _, _)
WebSafeBStep50(r, g, b) ==
    IF b < WebSafeLevels
    THEN <<Arr(<<r * 50, g * 50, b * 50>>)>> \o WebSafeB(r, g, b + 1)
    ELSE << >>
WebSafeBInnerRed(r, g, b) ==
    IF b < WebSafeLevels
    THEN <<Arr(<<b * WebSafeStep, g * WebSafeStep, r * WebSafeStep>>)>> \o WebSafeB(r, g, b + 1)
    ELSE << >>
WebSafeB(r, g, b) ==
    IF b < WebSafeLevels
    THEN <<Arr(<<r * WebSafeStep, g * WebSafeStep, b * WebSafeStep>>)>> \o WebSafeB(r, g, b + 1)
    ELSE << >>
RECURSIVE WebSafeG(_, _)
WebSafeG(r, g) ==
    IF g < WebSafeLevels THEN WebSafeB(r, g, 0) \o WebSafeG(r, g + 1) ELSE << >>
RECURSIVE WebSafeR(_)
WebSafeR(r) ==
    IF r < WebSafeLevels THEN WebSafeG(r, 0) \o WebSafeR(r + 1) ELSE << >>
webSafe == Arr(WebSafeR(0))

\* dr*dr + dg*dg + db*db for Q7 r,g,b and an entry `color` with >= 3 integer
\* channels, exact, in units of 1/16384, as the pair <<high, low>> base 65536.
\* A NaN operand (NaN argument, or a channel the entry does not have) gives NaN.
DistBase == 65536
Infinity == <<1073741824, 0>>
DistNaN == <<NaN, 0>>
Channel(color, c) == IF c <= Len(color.val) THEN color.val[c] ELSE NaN
Sq(p, ch) == IF p = NaN \/ ch = NaN THEN NaN ELSE (p - Q7 * ch) * (p - Q7 * ch)
Distance(r, g, b, color) ==
    LET dr2 == Sq(r, Channel(color, 1))
        dg2 == Sq(g, Channel(color, 2))
        db2 == Sq(b, Channel(color, 3))
    IN  IF dr2 = NaN \/ dg2 = NaN \/ db2 = NaN THEN DistNaN
        ELSE LET lo == (dr2 % DistBase) + (dg2 % DistBase) + (db2 % DistBase)
                 hi == (dr2 \div DistBase) + (dg2 \div DistBase) + (db2 \div DistBase)
             IN  <<hi + (lo \div DistBase), lo % DistBase>>
DistLessOrEqual(d, m) ==
    /\ d # DistNaN
    /\ m # DistNaN
    /\ (d[1] < m[1] \/ (d[1] = m[1] /\ d[2] <= m[2]))
\* distance < minDistance
DistLess(d, m) ==
    /\ d # DistNaN
    /\ m # DistNaN
    /\ (d[1] < m[1] \/ (d[1] = m[1] /\ d[2] < m[2]))

SkipNothing(color) == FALSE
\* `!color || color.length < 3` : the entry is skipped
SkipColor(color) == Malformed(color)
\* reading color[0] of a null entry raises a TypeError
Raises(color) == color.tag = "null"

\* One iteration of the for-of loop of findClosestColor.  The loop state is
\* <<minDistance, closestColor>>, or Thrown once the body has raised.
Thrown == <<DistNaN, [tag |-> "thrown", val |-> << >>]>>
ClosestStep(r, g, b, st, color) ==
    IF st = Thrown THEN Thrown
    ELSE IF SkipColor(color) THEN st
    ELSE IF Raises(color) THEN Thrown
    ELSE LET distance == Distance(r, g, b, color)
         IN  IF DistLess(distance, st[1]) THEN <<distance, color>> ELSE st

\* The iterations over palette[lo..hi], in palette order (the range is split
\* in halves only to keep the evaluation shallow; the order is unchanged).
RECURSIVE ClosestLoop(_, _, _, _, _, _, _)
ClosestLoop(r, g, b, palette, st, lo, hi) ==
    IF st = Thrown \/ lo > hi THEN st
    ELSE IF lo = hi THEN ClosestStep(r, g, b, st, palette[lo])
    ELSE LET mid == (lo + hi) \div 2
         IN  ClosestLoop(r, g, b, palette,
                         ClosestLoop(r, g, b, palette, st, lo, mid), mid + 1, hi)

\* `!palette || !Array.isArray(palette) || palette.length === 0`
InvalidPalette(palette) == palette.tag # "array" \/ Len(palette.val) = 0

findClosestColor(r, g, b, palette) ==
    IF InvalidPalette(palette) THEN Black
    ELSE LET st == ClosestLoop(r, g, b, palette.val, <<Infinity, palette.val[1]>>,
                               1, Len(palette.val))
         IN  IF st = Thrown THEN Black ELSE st[2]

\* Thresholds are JavaScript values: a number, NaN, undefined, null or a
\* non-numeric string.  ToNumber is the conversion isNaN() and < apply.
Num(n) == [tag |-> "number", val |-> n]
ToNumber(v) ==
    IF v.tag = "number" THEN v.val
    ELSE IF v.tag = "null" THEN 0
    ELSE NaN
IsNaN(v) == ToNumber(v) = NaN
DefaultThreshold == 128

findClosestMonochromeColorGray(r, g, b, threshold) ==
    LET validThreshold == IF IsNaN(threshold) THEN Num(DefaultThreshold) ELSE threshold
        t == ToNumber(validThreshold)
        isNaNGray == r = NaN \/ g = NaN \/ b = NaN
    IN  IF ~isNaNGray /\ GrayLess(Gray(r, g, b), t) THEN Black ELSE Arr(<<254, 254, 254>>)

findClosestMonochromeColor(r, g, b, threshold) ==
    LET validThreshold == IF IsNaN(threshold) THEN Num(DefaultThreshold) ELSE threshold
        t == ToNumber(validThreshold)
        isNaNGray == r = NaN \/ g = NaN \/ b = NaN
    IN  IF ~isNaNGray /\ GrayLess(Gray(r, g, b), t) THEN Black ELSE White

\* ---------------------------------------------------------------- resolvers
\* The color-resolution function handed to an algorithm:
\*   null         no function
\*   monochrome   (r,g,b) => findClosestMonochromeColor(r,g,b,threshold)
\*   palette      (r,g,b) => findClosestColor(r,g,b,colorPalette)
\*   scripted     any other function: answers `value` on its call number `at`
\*                and like the cga resolver on every other call
NoResolver == [kind |-> "null", threshold |-> Num(0), palette |-> "none", at |-> 0, value |-> JsNull]
MonoResolver(th) == [kind |-> "monochrome", threshold |-> th, palette |-> "1bit", at |-> 0, value |-> JsNull]
PaletteResolver(id) == [kind |-> "palette", threshold |-> Num(0), palette |-> id, at |-> 0, value |-> JsNull]
Scripted(k, v) == [kind |-> "scripted", threshold |-> Num(0), palette |-> "cga", at |-> k, value |-> v]

PaletteOf(id) == IF id = "websafe" THEN webSafe ELSE IF id = "cga" THEN cga ELSE monochrome

\* the value of call number n of `resolver` on (r,g,b)
Resolve(resolver, r, g, b, n) ==
    IF resolver.kind = "monochrome" THEN findClosestMonochromeColor(r, g, b, resolver.threshold)
    ELSE IF resolver.kind = "scripted" /\ resolver.at = n THEN resolver.value
    ELSE findClosestColor(r, g, b, PaletteOf(resolver.palette))

\* ------------------------------------------------------------------- inputs
Thresholds ==
    {Num(128), Num(200),
     [tag |-> "NaN", val |-> 0], [tag |-> "undefined", val |-> 0],
     [tag |-> "null", val |-> 0], [tag |-> "string", val |-> 0]}

\* values a scripted resolver may answer
ScriptValues ==
    {JsNull, Arr(<<7, 7>>), Arr(<<9, 9, 9, 9>>), Arr(<<300, -20, 0>>), Arr(<<1, 2, 3>>)}

Resolvers ==
    {NoResolver}
    \cup {MonoResolver(th) : th \in Thresholds}
    \cup {PaletteResolver(id) : id \in {"cga", "websafe"}}
    \cup {Scripted(k, v) : k \in 1..MaxPixels, v \in ScriptValues}

\* RGBA pixels of the source images
Pixels == {<<128, 128, 128, 255>>, <<170, 170, 255, 77>>}

RECURSIVE Flatten(_)
Flatten(px) == IF px = << >> THEN << >> ELSE Head(px) \o Flatten(Tail(px))

NoImage == [tag |-> "null", width |-> 0, height |-> 0, data |-> << >>]
Image(w, h, bytes) == [tag |-> "ImageData", width |-> w, height |-> h, data |-> bytes]
Dims == {d \in (1..MaxPixels) \X (1..MaxPixels) : d[1] * d[2] <= MaxPixels}
ValidImages ==
    UNION {{Image(d[1], d[2], Flatten(px)) : px \in [1..(d[1] * d[2]) -> Pixels]} : d \in Dims}
\* objects whose data length is not width*height*4: a pixel short, a pixel long
MalformedImages ==
    {Image(2, 1, p) : p \in Pixels} \cup {Image(1, 1, p \o q) : p, q \in Pixels}
\* an image whose pixels alternate between two colours
Alternating(w, h, p, q) ==
    Image(w, h, Flatten([i \in 1..(w * h) |-> IF i % 2 = 1 THEN p ELSE q]))
\* a row and a column longer than the side of the bayer matrix
StripImages ==
    {Alternating(MaxStrip, 1, <<128, 128, 128, 255>>, <<170, 170, 255, 77>>),
     Alternating(1, MaxStrip, <<170, 170, 255, 77>>, <<128, 128, 128, 255>>)}
Images == {NoImage} \cup ValidImages \cup MalformedImages \cup StripImages

WellFormedBuffer(img) == img.tag = "ImageData" /\ Len(img.data) = img.width * img.height * 4

\* arguments of direct calls of the palette functions (Q7)
Points ==
    {<<10, 10, 10>>, <<90, 250, 250>>, <<170, 170, 255>>, <<128, 128, 128>>,
     <<200, 200, 200>>, <<50, 50, 50>>, <<100, 150, 200>>}
PalEntries ==
    {Black, White, Arr(<<85, 255, 255>>), Arr(<<255, 85, 255>>),
     JsNull, Arr(<<20, 20>>), Arr(<<12, 12, 12, 255>>)}
RECURSIVE SeqsUpTo(_, _)
SeqsUpTo(S, n) ==
    IF n = 0 THEN {<< >>}
    ELSE LET shorter == SeqsUpTo(S, n - 1)
         IN  shorter \cup {Append(q, e) : q \in {t \in shorter : Len(t) = n - 1}, e \in S}
PaletteArgs ==
    {Arr(q) : q \in SeqsUpTo(PalEntries, MaxPal)}
    \cup {cga, webSafe, JsNull, [tag |-> "object", val |-> << >>]}

\* ------------------------------------------------------------------- state
VARIABLES
    pc,         \* "idle", "loop" (inside the y/x loops), "done" (returned), "error" (threw)
    op,         \* the function that was called
    imageData,  \* argument imageData of the algorithm (the source buffer)
    resolver,   \* argument findClosestColor of the algorithm
    data,       \* local `data`: the working copy (floydSteinberg) or imageData.data itself
    output,     \* local `output`
    pos,        \* pixels visited so far; the next visit is x = pos % width, y = pos \div width
    calls,      \* number of invocations of the resolver in this call
    lastColor,  \* what the latest invocation of the resolver returned
    args,       \* arguments of a direct call of a ColorPalettes function
    ret,        \* the value returned to the caller
    bufferOf,   \* which buffer each of imageData.data, `data` and `output` refers to
    visited,    \* the pixel numbers visited in this call
    request,    \* processImage: the selected algorithm, palette and threshold
    first,      \* processImage: the request and the result of the previous run
    app         \* src/app.js: the page's state besides currentImageData (imageData)
vars ==
    <<pc, op, imageData, resolver, data, output, pos, calls, lastColor, args, ret,
      bufferOf, visited, request, first, app>>

None == [tag |-> "none", val |-> << >>]
NoArgs == [r |-> 0, g |-> 0, b |-> 0, palette |-> JsNull, threshold |-> Num(0)]
Algorithms == {"floydSteinberg", "bayer", "ordered"}
NoBuffers == [source |-> "source", data |-> "none", output |-> "none"]
NoRequest == [algorithm |-> "none", palette |-> "none", threshold |-> Num(0)]
NoRun == [request |-> NoRequest, ret |-> None]
\* a canvas whose bitmap is transparent black
Blank(w, h) == [width |-> w, height |-> h, data |-> [i \in 1..(4 * w * h) |-> 0]]
\* the page after initApp: nothing loaded, both buttons disabled, the slider
\* at 100, no timer pending. The dithered canvas is blank; its bitmap is not
\* read before drawOriginalImage has sized it.
NoApp ==
    [originalImage |-> [tag |-> "null", width |-> 0, height |-> 0],
     scale |-> 100,
     ditheredCanvas |-> Blank(0, 0),
     currentDitheredImageData |-> [tag |-> "null", width |-> 0, height |-> 0, data |-> << >>],
     processBtnDisabled |-> TRUE,
     downloadBtnDisabled |-> TRUE,
     timers |-> << >>,
     running |-> FALSE,
     exported |-> [tag |-> "none"]]

Init ==
    /\ pc = "idle"
    /\ op = "none"
    /\ imageData = NoImage
    /\ resolver = NoResolver
    /\ data = << >>
    /\ output = << >>
    /\ pos = 0
    /\ calls = 0
    /\ lastColor = None
    /\ args = NoArgs
    /\ ret = None
    /\ bufferOf = NoBuffers
    /\ visited = {}
    /\ request = NoRequest
    /\ first = NoRun
    /\ app = NoApp

\* ---------------------------------------------------------------- Dithering
\* typed-array element access: a read outside the array is undefined, a
\* write outside the array is ignored; idx is the 0-based JavaScript index
Read(buf, idx) == IF idx >= 0 /\ idx < Len(buf) THEN buf[idx + 1] ELSE NaN
Store(buf, idx, n, d) ==
    IF idx >= 0 /\ idx < Len(buf) THEN [buf EXCEPT ![idx + 1] = ToUint8Clamp(n, d)] ELSE buf
ToQ7(v) == IF v = NaN THEN NaN ELSE v * Q7

InvalidParametersImageOnly(img, res) == img.tag = "null"
\* `!imageData || !findClosestColor`
InvalidParameters(img, res) == img.tag = "null" \/ res.kind = "null"

\* the channels stored in the order blue, green, red
PutPixelReversed(out, idx, closestColor, alpha) ==
    LET o0 == Store(out, idx, Channel(closestColor, 3), 1)
        o1 == Store(o0, idx + 1, Channel(closestColor, 2), 1)
        o2 == Store(o1, idx + 2, Channel(closestColor, 1), 1)
    IN  Store(o2, idx + 3, alpha, 1)
PutPixelNoAlpha(out, idx, closestColor, alpha) ==
    Store(Store(Store(out, idx, Channel(closestColor, 1), 1),
                idx + 1, Channel(closestColor, 2), 1),
          idx + 2, Channel(closestColor, 3), 1)
\* output[idx..idx+2] = closestColor[0..2]; output[idx+3] = data[idx+3]
PutPixel(out, idx, closestColor, alpha) ==
    LET o0 == Store(out, idx, Channel(closestColor, 1), 1)
        o1 == Store(o0, idx + 1, Channel(closestColor, 2), 1)
        o2 == Store(o1, idx + 2, Channel(closestColor, 3), 1)
    IN  Store(o2, idx + 3, alpha, 1)

QuantErrorReversed(v, ch) == IF v = NaN \/ ch = NaN THEN NaN ELSE ch - v
\* r - closestColor[c]
QuantError(v, ch) == IF v = NaN \/ ch = NaN THEN NaN ELSE v - ch

\* data[i] += error * weight / 16
AddError(buf, idx, error, weight) ==
    IF idx >= 0 /\ idx < Len(buf)
    THEN IF error = NaN THEN Store(buf, idx, NaN, 1)
         ELSE Store(buf, idx, 16 * buf[idx + 1] + weight * error, 16)
    ELSE buf
\* the three channel updates of one neighbour, pixel number p
AddPixelError(buf, p, e, weight) ==
    AddError(AddError(AddError(buf, p * 4, e[1], weight), p * 4 + 1, e[2], weight),
             p * 4 + 2, e[3], weight)

\* the four blocks without the test `x - 1 >= 0`
DistributeNoLeftGuard(buf, x, y, width, height, e) ==
    LET d1 == IF x + 1 < width THEN AddPixelError(buf, y * width + x + 1, e, 7) ELSE buf
        d2 == IF y + 1 < height
              THEN AddPixelError(d1, (y + 1) * width + x - 1, e, 3) ELSE d1
        d3 == IF y + 1 < height THEN AddPixelError(d2, (y + 1) * width + x, e, 5) ELSE d2
    IN  IF x + 1 < width /\ y + 1 < height
        THEN AddPixelError(d3, (y + 1) * width + x + 1, e, 1) ELSE d3

\* the four `if` blocks that distribute the error of pixel (x,y)
Distribute(buf, x, y, width, height, e) ==
    LET d1 == IF x + 1 < width THEN AddPixelError(buf, y * width + x + 1, e, 7) ELSE buf
        d2 == IF x - 1 >= 0 /\ y + 1 < height
              THEN AddPixelError(d1, (y + 1) * width + x - 1, e, 3) ELSE d1
        d3 == IF y + 1 < height THEN AddPixelError(d2, (y + 1) * width + x, e, 5) ELSE d2
    IN  IF x + 1 < width /\ y + 1 < height
        THEN AddPixelError(d3, (y + 1) * width + x + 1, e, 1) ELSE d3

\* `data = new Uint8ClampedArray(imageData.data)` is a new buffer (working
\* copy); `data = imageData.data` is the source buffer itself
DataBufferShared(name) == "source"
DataBuffer(name) == IF name = "floydSteinberg" THEN "working" ELSE "source"
\* `output = new Uint8ClampedArray(...)` is a new buffer in every algorithm
OutputBuffer(name) == "output"

\* the contents seen through the three names, and a write through one name:
\* every name that refers to the written buffer sees the new contents
Contents == [source |-> imageData.data, data |-> data, output |-> output]
WriteThrough(bufs, name, new) ==
    [source |-> IF bufferOf.source = bufferOf[name] THEN new ELSE bufs.source,
     data |-> IF bufferOf.data = bufferOf[name] THEN new ELSE bufs.data,
     output |-> IF bufferOf.output = bufferOf[name] THEN new ELSE bufs.output]
Commit(bufs) ==
    /\ imageData' = [imageData EXCEPT !.data = bufs.source]
    /\ data' = bufs.data
    /\ output' = bufs.output

AbortCall ==
    /\ pc' = "error"
    /\ UNCHANGED <<imageData, data, output, pos, ret, visited>>

\* entry of an algorithm up to the first loop test
Enter(name, img, res) ==
    /\ op' = name
    /\ imageData' = img
    /\ resolver' = res
    /\ pos' = 0
    /\ calls' = 0
    /\ lastColor' = None
    /\ ret' = None
    /\ visited' = {}
    /\ UNCHANGED args
    /\ IF InvalidParameters(img, res)
       THEN pc' = "error" /\ data' = << >> /\ output' = << >> /\ bufferOf' = NoBuffers
       ELSE /\ pc' = "loop"
            /\ data' = img.data
            /\ output' = IF name = "floydSteinberg" THEN img.data
                         ELSE [i \in 1..Len(img.data) |-> 0]
            /\ bufferOf' = [source |-> "source", data |-> DataBuffer(name),
                            output |-> OutputBuffer(name)]

\* a call of an algorithm by any caller
Call(name) ==
    /\ pc = "idle"
    /\ \E img \in Images, res \in Resolvers : Enter(name, img, res)
    /\ UNCHANGED <<request, first, app>>
floydSteinberg == Call("floydSteinberg")
bayer == Call("bayer")
ordered == Call("ordered")

\* one iteration of the inner loop of floydSteinberg
FloydSteinbergPixel ==
    /\ pc = "loop" /\ op = "floydSteinberg"
    /\ pos < imageData.width * imageData.height
    /\ LET width == imageData.width
           height == imageData.height
           x == pos % width
           y == pos \div width
           idx == (y * width + x) * 4
           r == Read(data, idx)
           g == Read(data, idx + 1)
           b == Read(data, idx + 2)
       IN  /\ UNCHANGED <<op, resolver, args, bufferOf, request, first, app>>
           /\ IF resolver.kind = "null"
              THEN AbortCall /\ UNCHANGED <<calls, lastColor>>
              ELSE LET closestColor == Resolve(resolver, ToQ7(r), ToQ7(g), ToQ7(b), calls + 1)
                   IN  /\ calls' = calls + 1
                       /\ lastColor' = closestColor
                       /\ IF Malformed(closestColor)
                          THEN AbortCall
                          ELSE LET e == <<QuantError(r, Channel(closestColor, 1)),
                                          QuantError(g, Channel(closestColor, 2)),
                                          QuantError(b, Channel(closestColor, 3))>>
                                   b1 == WriteThrough(Contents, "output",
                                             PutPixel(output, idx, closestColor, Read(data, idx + 3)))
                                   b2 == WriteThrough(b1, "data",
                                             Distribute(b1.data, x, y, width, height, e))
                               IN  /\ Commit(b2)
                                   /\ pos' = pos + 1
                                   /\ visited' = visited \cup {pos}
                                   /\ UNCHANGED <<pc, ret>>

bayerMatrix ==
    << <<0, 48, 12, 60, 3, 51, 15, 63>>,
       <<32, 16, 44, 28, 35, 19, 47, 31>>,
       <<8, 56, 4, 52, 11, 59, 7, 55>>,
       <<40, 24, 36, 20, 43, 27, 39, 23>>,
       <<2, 50, 14, 62, 1, 49, 13, 61>>,
       <<34, 18, 46, 30, 33, 17, 45, 29>>,
       <<10, 58, 6, 54, 9, 57, 5, 53>>,
       <<42, 26, 38, 22, 41, 25, 37, 21>> >>
orderedMatrix ==
    << <<0, 8, 2, 10>>,
       <<12, 4, 14, 6>>,
       <<3, 11, 1, 9>>,
       <<15, 7, 13, 5>> >>

\* val / n2 - 0.5: the half step left out
NormalizeNoHalf(val, n2) == (val * Q7) \div n2 - Q7 \div 2
\* (val + 0.5) / n2 - 0.5, in Q7 (exact: n2 is 64 or 16)
Normalize(val, n2) == ((2 * val + 1) * Q7) \div (2 * n2) - Q7 \div 2
\* Math.min(255, Math.max(0, v + threshold)), in Q7
Adjust(v, threshold) ==
    IF v = NaN THEN NaN ELSE Min(255 * Q7, Max(0, v * Q7 + threshold))

\* a running visit counter taken for the coordinates of the matrix cell
MatrixColorByVisit(res, buf, matrix, n, width, p, k) ==
    LET idx == p * 4
        threshold ==
            Normalize(matrix[(((k - 1) \div width) % n) + 1][(((k - 1) % width) % n) + 1], n * n) * 255
    IN  Resolve(res, Adjust(Read(buf, idx), threshold), Adjust(Read(buf, idx + 1), threshold),
                Adjust(Read(buf, idx + 2), threshold), k)
\* the colour chosen for pixel number p of `buf` by bayer (n = 8) or ordered
\* (n = 4); k is the number of this invocation of the resolver
MatrixColor(res, buf, matrix, n, width, p, k) ==
    LET x == p % width
        y == p \div width
        idx == (y * width + x) * 4
        r == Read(buf, idx)
        g == Read(buf, idx + 1)
        b == Read(buf, idx + 2)
        threshold == Normalize(matrix[(y % n) + 1][(x % n) + 1], n * n) * 255
        adjustedR == Adjust(r, threshold)
        adjustedG == Adjust(g, threshold)
        adjustedB == Adjust(b, threshold)
    IN  Resolve(res, adjustedR, adjustedG, adjustedB, k)

\* the body of the inner loop of bayer or ordered at pixel number p
MatrixVisit(name, matrix, n, p) ==
    /\ pc = "loop" /\ op = name
    /\ pos < imageData.width * imageData.height
    /\ LET idx == p * 4
       IN  /\ UNCHANGED <<op, resolver, args, bufferOf, request, first, app>>
           /\ IF resolver.kind = "null"
              THEN AbortCall /\ UNCHANGED <<calls, lastColor>>
              ELSE LET closestColor ==
                           MatrixColor(resolver, data, matrix, n, imageData.width, p, calls + 1)
                   IN  /\ calls' = calls + 1
                       /\ lastColor' = closestColor
                       /\ IF Malformed(closestColor)
                          THEN AbortCall
                          ELSE /\ Commit(WriteThrough(Contents, "output",
                                          PutPixel(output, idx, closestColor, Read(data, idx + 3))))
                               /\ pos' = pos + 1
                               /\ visited' = visited \cup {p}
                               /\ UNCHANGED <<pc, ret>>

\* one iteration of the inner loop, in the order of the loops
MatrixPixel(name, matrix, n) == MatrixVisit(name, matrix, n, pos)
BayerPixel == MatrixPixel("bayer", bayerMatrix, 8)
OrderedPixel == MatrixPixel("ordered", orderedMatrix, 4)

\* `return new ImageData(output, width, height)`: the constructor throws
\* unless output.length = 4 * width * height
ReturnImageData ==
    /\ pc = "loop" /\ op \in Algorithms
    /\ pos = imageData.width * imageData.height
    /\ UNCHANGED <<op, imageData, resolver, data, output, pos, calls, lastColor, args,
                   bufferOf, visited, request, first, app>>
    /\ IF Len(output) = 4 * imageData.width * imageData.height
       THEN pc' = "done" /\ ret' = Image(imageData.width, imageData.height, output)
       ELSE pc' = "error" /\ UNCHANGED ret

\* ---------------------------------------- direct calls of ColorPalettes
CallPalette(name, a, result) ==
    /\ pc = "idle"
    /\ pc' = "done"
    /\ op' = name
    /\ args' = a
    /\ ret' = result
    /\ UNCHANGED <<imageData, resolver, data, output, pos, calls, lastColor,
                   bufferOf, visited, request, first, app>>

CallFindClosestColor ==
    pc = "idle" /\ \E pt \in Points, pal \in PaletteArgs :
        CallPalette("findClosestColor",
                    [r |-> pt[1] * Q7, g |-> pt[2] * Q7, b |-> pt[3] * Q7,
                     palette |-> pal, threshold |-> Num(0)],
                    findClosestColor(pt[1] * Q7, pt[2] * Q7, pt[3] * Q7, pal))

CallFindClosestMonochromeColor ==
    pc = "idle" /\ \E pt \in Points, th \in Thresholds :
        CallPalette("findClosestMonochromeColor",
                    [r |-> pt[1] * Q7, g |-> pt[2] * Q7, b |-> pt[3] * Q7,
                     palette |-> JsNull, threshold |-> th],
                    findClosestMonochromeColor(pt[1] * Q7, pt[2] * Q7, pt[3] * Q7, th))

CallWebSafe == CallPalette("webSafe", NoArgs, webSafe)

Next ==
    \/ floydSteinberg
    \/ bayer
    \/ ordered
    \/ FloydSteinbergPixel
    \/ BayerPixel
    \/ OrderedPixel
    \/ ReturnImageData
    \/ CallFindClosestColor
    \/ CallFindClosestMonochromeColor
    \/ CallWebSafe

Spec == Init /\ [][Next]_vars

\* ------------------------------- bayer and ordered, pixels in any order
\* The body of the inner loop run once per pixel, the pixels taken in any
\* order (a permuted scan, or workers that share out the pixels), with a
\* resolver that is a function of (r,g,b) only.
PureResolvers == {MonoResolver(Num(128)), MonoResolver(Num(200)), PaletteResolver("cga")}
\* images of every size whose pixels alternate between two colours
AlternatingImages == {Alternating(d[1], d[2], p, q) : d \in Dims, p \in Pixels, q \in Pixels}
CallPure(name) ==
    /\ pc = "idle"
    /\ \E img \in AlternatingImages, res \in PureResolvers : Enter(name, img, res)
    /\ UNCHANGED <<request, first, app>>
bayerPure == CallPure("bayer")
orderedPure == CallPure("ordered")
Unvisited == (0..(imageData.width * imageData.height - 1)) \ visited
BayerPixelAnyOrder == \E p \in Unvisited : MatrixVisit("bayer", bayerMatrix, 8, p)
OrderedPixelAnyOrder == \E p \in Unvisited : MatrixVisit("ordered", orderedMatrix, 4, p)

NextAnyOrder ==
    \/ bayerPure
    \/ orderedPure
    \/ BayerPixelAnyOrder
    \/ OrderedPixelAnyOrder
    \/ ReturnImageData
SpecAnyOrder == Init /\ [][NextAnyOrder]_vars

\* ------------------------------------------------- processImage (src/app.js)
\* the values of the two <select> elements and of the threshold slider
AlgorithmIds == {"floyd-steinberg", "bayer", "ordered"}
PaletteIds == {"1bit", "cga", "websafe"}
SliderValues == {Num(128), Num(200)}
\* the images drawn by drawOriginalImage: up to 2 x 2 pixels
MaxSide == 2
DrawnImages == {img \in ValidImages : img.width <= MaxSide /\ img.height <= MaxSide}

SelectResolverMonochromeOnly(palette, threshold) == MonoResolver(threshold)
\* `switch (palette)`: the closure of 1bit (and of the default) holds the
\* threshold, the closures of cga and websafe hold the palette
SelectResolver(palette, threshold) ==
    IF palette = "1bit" THEN MonoResolver(threshold)
    ELSE IF palette = "cga" THEN PaletteResolver("cga")
    ELSE IF palette = "websafe" THEN PaletteResolver("websafe")
    ELSE MonoResolver(threshold)
\* `switch (algorithm)`
SelectAlgorithm(algorithm) ==
    IF algorithm = "floyd-steinberg" THEN "floydSteinberg"
    ELSE IF algorithm = "bayer" THEN "bayer"
    ELSE IF algorithm = "ordered" THEN "ordered"
    ELSE "floydSteinberg"

\* processImage on a freshly drawn image (currentImageData)
processImage ==
    /\ pc = "idle"
    /\ \E img \in DrawnImages, algorithm \in AlgorithmIds, palette \in PaletteIds,
          threshold \in SliderValues :
           /\ request' = [algorithm |-> algorithm, palette |-> palette, threshold |-> threshold]
           /\ Enter(SelectAlgorithm(algorithm), img, SelectResolver(palette, threshold))
    /\ UNCHANGED <<first, app>>

\* processImage once more on the same currentImageData object, the slider
\* moved or not
processImageAgain ==
    /\ pc = "done" /\ op \in Algorithms
    /\ request # NoRequest /\ first = NoRun
    /\ \E threshold \in SliderValues :
           /\ request' = [request EXCEPT !.threshold = threshold]
           /\ Enter(SelectAlgorithm(request.algorithm), imageData,
                    SelectResolver(request.palette, threshold))
    /\ first' = [request |-> request, ret |-> ret]
    /\ UNCHANGED app

NextRuns ==
    \/ processImage
    \/ processImageAgain
    \/ FloydSteinbergPixel
    \/ BayerPixel
    \/ OrderedPixel
    \/ ReturnImageData

\* A call is synchronous: once inside its loops it executes its next step,
\* which is an iteration (pos advances), the abort of an iteration, or the
\* return. In a state with pc = "loop" and pos <= width*height one of the
\* pixel actions (pos < width*height) or ReturnImageData (pos = width*height)
\* is enabled, so this is weak fairness of those actions.
LoopAdvance ==
    /\ pc = "loop"
    /\ pc' \in {"loop", "done", "error"}
    /\ pos' \in {pos, pos + 1}
SpecRuns == Init /\ [][NextRuns]_vars /\ WF_<<pc, pos>>(LoopAdvance)

\* ------------------------------ floydSteinberg applied to its own output
NearestColorResolvers == {PaletteResolver("cga"), PaletteResolver("websafe")}
\* floydSteinberg with the resolver of a palette, on any image
floydSteinbergNearest ==
    /\ pc = "idle"
    /\ \E img \in Images, res \in NearestColorResolvers : Enter("floydSteinberg", img, res)
    /\ UNCHANGED <<request, first, app>>
\* floydSteinberg(floydSteinberg(imageData, f), f): the returned ImageData is
\* the argument of a second call with the same resolver
floydSteinbergAgain ==
    /\ pc = "done" /\ op = "floydSteinberg"
    /\ first = NoRun
    /\ first' = [request |-> request, ret |-> ret]
    /\ Enter("floydSteinberg", ret, resolver)
    /\ UNCHANGED <<request, app>>
NextTwice ==
    \/ floydSteinbergNearest
    \/ floydSteinbergAgain
    \/ FloydSteinbergPixel
    \/ ReturnImageData
SpecTwice == Init /\ [][NextTwice]_vars

\* ------------------------------------------------ the page (src/app.js)
\* at most this many timers of processImage are pending at a time
MaxTimers == 1
\* the selections offered to a click on Process: every algorithm, two of the
\* palettes, the threshold slider at its initial position
PageRequests ==
    {[algorithm |-> algorithm, palette |-> palette, threshold |-> Num(128)] :
        algorithm \in AlgorithmIds, palette \in {"1bit", "cga"}}
\* positions of the scale slider (min 10, max 100)
ScaleValues == {50, 100}
\* the images a user loads, by their natural size
NaturalImages ==
    {[tag |-> "Image", width |-> 2, height |-> 2],
     [tag |-> "Image", width |-> 2, height |-> 1]}
\* what drawImage and getImageData give for a loaded image at w x h: opaque
\* pixels, which the canvas stores and returns unchanged
Drawn(w, h) == Alternating(w, h, <<128, 128, 128, 255>>, <<170, 170, 255, 255>>)

\* drawOriginalImage: returns at once without an image; setting the
\* width and height of a canvas clears it; getImageData throws on an empty
\* rectangle, the catch reports it and currentImageData keeps its value
drawOriginalImage(a, currentImageData) ==
    IF a.originalImage.tag = "null"
    THEN [app |-> a, currentImageData |-> currentImageData]
    ELSE LET width == (a.originalImage.width * a.scale) \div 100
             height == (a.originalImage.height * a.scale) \div 100
         IN  [app |-> [a EXCEPT !.ditheredCanvas = Blank(width, height)],
              currentImageData |-> IF width = 0 \/ height = 0 THEN currentImageData
                                   ELSE Drawn(width, height)]

\* an event handler runs when no other script does
BetweenTasks == pc = "idle" /\ ~app.running
Page(drawn) ==
    /\ app' = drawn.app
    /\ imageData' = drawn.currentImageData
    /\ UNCHANGED <<pc, op, resolver, data, output, pos, calls, lastColor, args, ret,
                   bufferOf, visited, request, first>>

\* img.onload of handleFiles
ImageLoaded ==
    /\ BetweenTasks
    /\ \E img \in NaturalImages :
           LET drawn == drawOriginalImage([app EXCEPT !.originalImage = img], imageData)
           IN  Page([drawn EXCEPT !.app.processBtnDisabled = FALSE])

\* the input event of the scale slider
updateScaleValue ==
    /\ BetweenTasks
    /\ \E scale \in ScaleValues \ {app.scale} :
           Page(drawOriginalImage([app EXCEPT !.scale = scale], imageData))

\* a click on the Process button: processImage up to and including setTimeout
ProcessClick ==
    /\ BetweenTasks
    /\ ~app.processBtnDisabled
    /\ Len(app.timers) < MaxTimers
    /\ IF imageData.tag = "null"
       THEN UNCHANGED vars
       ELSE \E selected \in PageRequests :
                Page([app |-> [app EXCEPT !.timers = Append(@, selected)],
                      currentImageData |-> imageData])

\* the timer fires: the callback of setTimeout up to the first loop test of
\* the algorithm, which is applied to currentImageData as it is now
TimerCallback ==
    /\ BetweenTasks
    /\ app.timers # << >>
    /\ request' = Head(app.timers)
    /\ app' = [app EXCEPT !.timers = Tail(@), !.running = TRUE]
    /\ Enter(SelectAlgorithm(Head(app.timers).algorithm), imageData,
             SelectResolver(Head(app.timers).palette, Head(app.timers).threshold))
    /\ UNCHANGED first

\* putImageData(imagedata, 0, 0): the pixels that fall inside the canvas
putImageData(canvas, imagedata) ==
    [canvas EXCEPT !.data =
        [i \in 1..Len(canvas.data) |->
            LET p == (i - 1) \div 4
                x == p % canvas.width
                y == p \div canvas.width
            IN  IF x < imagedata.width /\ y < imagedata.height
                THEN imagedata.data[4 * (y * imagedata.width + x) + ((i - 1) % 4) + 1]
                ELSE canvas.data[i]]]

\* the rest of the callback after the algorithm returned or threw; the
\* locals of the callback and of the algorithm end with it
CallbackEnd ==
    /\ app.running
    /\ pc \in {"done", "error"}
    /\ pc' = "idle"
    /\ app' = IF pc = "done"
              THEN [app EXCEPT !.currentDitheredImageData = ret,
                               !.ditheredCanvas = putImageData(@, ret),
                               !.downloadBtnDisabled = FALSE,
                               !.running = FALSE]
              ELSE [app EXCEPT !.running = FALSE]
    /\ op' = "none" /\ resolver' = NoResolver /\ request' = NoRequest
    /\ data' = << >> /\ output' = << >> /\ bufferOf' = NoBuffers
    /\ pos' = 0 /\ calls' = 0 /\ lastColor' = None /\ visited' = {} /\ ret' = None
    /\ UNCHANGED <<imageData, args, first>>

\* a click on the Download button: downloadImage exports the canvas
downloadImage ==
    /\ BetweenTasks
    /\ ~app.downloadBtnDisabled
    /\ IF app.currentDitheredImageData.tag = "null"
       THEN UNCHANGED vars
       ELSE Page([app |-> [app EXCEPT !.exported = [tag |-> "png", canvas |-> app.ditheredCanvas]],
                  currentImageData |-> imageData])

NextApp ==
    \/ ImageLoaded
    \/ updateScaleValue
    \/ ProcessClick
    \/ TimerCallback
    \/ FloydSteinbergPixel
    \/ BayerPixel
    \/ OrderedPixel
    \/ ReturnImageData
    \/ CallbackEnd
    \/ downloadImage
SpecApp == Init /\ [][NextApp]_vars

\* =================================================================== claims
Returned(name) == pc = "done" /\ op = name
Dithered == pc = "done" /\ op \in Algorithms
PixelCount(img) == img.width * img.height
\* the RGB triple and the alpha byte of pixel number p (0-based) of a byte sequence
RGB(bytes, p) == <<bytes[4 * p + 1], bytes[4 * p + 2], bytes[4 * p + 3]>>
Alpha(bytes, p) == bytes[4 * p + 4]
\* a colour as the specification defines it: exactly 3 channels, each in [0,255]
IsColor(v) == v.tag = "array" /\ Len(v.val) = 3 /\ \A c \in 1..3 : v.val[c] \in 0..255
ReturnsColors(res) ==
    \/ res.kind \in {"monochrome", "palette"}
    \/ res.kind = "scripted" /\ IsColor(res.value)

\* C1: for each algorithm, a valid source buffer and a resolver returning
\* well-formed colours, the returned buffer has the width, height and byte
\* length of the source, and the alpha byte of every pixel equals the source's.
C1_DimensionsAndAlpha ==
    (Dithered /\ WellFormedBuffer(imageData) /\ ReturnsColors(resolver)) =>
        /\ ret.width = imageData.width
        /\ ret.height = imageData.height
        /\ Len(ret.data) = Len(imageData.data)
        /\ \A p \in 0..(PixelCount(imageData) - 1) : Alpha(ret.data, p) = Alpha(imageData.data, p)
C1_Witness ==
    /\ Dithered /\ op = "bayer" /\ ReturnsColors(resolver)
    /\ PixelCount(imageData) >= 2
    /\ Alpha(ret.data, 0) # Alpha(ret.data, 1)

\* C2: with the monochrome resolver, whatever the threshold (numeric or not),
\* every output pixel of every algorithm is exactly (0,0,0) or (255,255,255).
C2_BlackOrWhite ==
    (Dithered /\ resolver.kind = "monochrome") =>
        \A p \in 0..(PixelCount(imageData) - 1) :
            RGB(ret.data, p) \in {<<0, 0, 0>>, <<255, 255, 255>>}
C2_Witness ==
    /\ Dithered /\ resolver.kind = "monochrome" /\ resolver.threshold.tag # "number"
    /\ \E p, q \in 0..(PixelCount(imageData) - 1) :
           RGB(ret.data, p) = <<0, 0, 0>> /\ RGB(ret.data, q) = <<255, 255, 255>>

\* C3: with findClosestColor bound to webSafe(), every R, G and B byte of the
\* output of every algorithm is one of 0, 51, 102, 153, 204, 255.
WebSafeChannels == {0, 51, 102, 153, 204, 255}
C3_WebSafeChannels ==
    (Dithered /\ resolver.kind = "palette" /\ resolver.palette = "websafe") =>
        \A p \in 0..(PixelCount(imageData) - 1) :
            \A c \in 1..3 : RGB(ret.data, p)[c] \in WebSafeChannels
C3_Witness ==
    /\ Dithered /\ resolver.kind = "palette" /\ resolver.palette = "websafe"
    /\ \E p \in 0..(PixelCount(imageData) - 1) : RGB(ret.data, p)[1] \in {51, 102, 153, 204}

\* C4: webSafe() returns exactly 216 entries, the entry at index 36r+6g+b being
\* [51r, 51g, 51b]; the first is [0,0,0], the last [255,255,255], and all
\* entries are pairwise distinct.
C4_WebSafeOrder ==
    Returned("webSafe") =>
        /\ ret.tag = "array"
        /\ Len(ret.val) = 216
        /\ \A r, g, b \in 0..5 : ret.val[36 * r + 6 * g + b + 1] = Arr(<<51 * r, 51 * g, 51 * b>>)
        /\ ret.val[1] = Arr(<<0, 0, 0>>)
        /\ ret.val[216] = Arr(<<255, 255, 255>>)
        /\ \A i, j \in 1..216 : i # j => ret.val[i] # ret.val[j]
C4_Witness == Returned("webSafe") /\ Len(ret.val) > 0

\* squared Euclidean distance from the (integer) point of args to the first
\* three channels of an entry
SqDist(a, color) ==
    LET dr == (a.r \div Q7) - color.val[1]
        dg == (a.g \div Q7) - color.val[2]
        db == (a.b \div Q7) - color.val[3]
    IN  dr * dr + dg * dg + db * db
\* ret is the entry of least distance among the entries at the indices I,
\* and the earliest such entry
NearestAmong(I, a, result) ==
    \E i \in I :
        /\ result = a.palette.val[i]
        /\ \A j \in I : SqDist(a, a.palette.val[i]) <= SqDist(a, a.palette.val[j])
        /\ \A j \in I : j < i => SqDist(a, a.palette.val[j]) > SqDist(a, a.palette.val[i])
Indices(a) == 1..Len(a.palette.val)
PointIs(a, r, g, b) == a.r = r * Q7 /\ a.g = g * Q7 /\ a.b = b * Q7

\* C5: over a non-empty palette of well-formed entries findClosestColor
\* returns the entry of minimum squared Euclidean distance, the one of
\* smallest index among equals; (10,10,10) over cga() gives [0,0,0] and
\* (90,250,250) over cga() gives [85,255,255].
C5_NearestFirst ==
    Returned("findClosestColor") =>
        /\ (/\ args.palette.tag = "array"
            /\ Len(args.palette.val) > 0
            /\ \A i \in Indices(args) : IsColor(args.palette.val[i]))
           => NearestAmong(Indices(args), args, ret)
        /\ (args.palette = cga /\ PointIs(args, 10, 10, 10)) => ret = Arr(<<0, 0, 0>>)
        /\ (args.palette = cga /\ PointIs(args, 90, 250, 250)) => ret = Arr(<<85, 255, 255>>)
\* a tie: (170,170,255) is as far from cyan as from magenta, cyan comes first
C5_Witness ==
    /\ Returned("findClosestColor")
    /\ args.palette = cga /\ PointIs(args, 170, 170, 255)
    /\ ret = Arr(<<85, 255, 255>>)

\* C6: findClosestMonochromeColor returns black exactly when
\* 0.299r + 0.587g + 0.114b < t and white otherwise, t being the threshold
\* if it is a valid number and 128 for every other threshold (NaN, undefined,
\* null, non-numeric).
C6_Claim ==
    Returned("findClosestMonochromeColor") =>
        LET t == IF args.threshold.tag = "number" THEN args.threshold.val ELSE 128
            below == 299 * args.r + 587 * args.g + 114 * args.b < 1000 * Q7 * t
        IN  ret = (IF below THEN Arr(<<0, 0, 0>>) ELSE Arr(<<255, 255, 255>>))

\* C7: a call of an algorithm with a missing image buffer or a missing
\* resolver ends in an error before the resolver is invoked and before any
\* working or output buffer exists; nothing is returned.
C7_RejectedFirst ==
    (op \in Algorithms /\ (imageData.tag = "null" \/ resolver.kind = "null")) =>
        /\ pc = "error"
        /\ calls = 0
        /\ data = << >>
        /\ output = << >>
        /\ ret = None
C7_Witness ==
    /\ op = "ordered" /\ pc = "error"
    /\ imageData.tag = "ImageData" /\ resolver.kind = "null"

\* C8: a PixelBuffer whose byte length differs from width*height*4 is
\* rejected with an error before the resolver is invoked on any pixel.
C8_Claim ==
    (/\ op \in Algorithms
     /\ imageData.tag = "ImageData" /\ ~WellFormedBuffer(imageData)
     /\ resolver.kind # "null") =>
        (pc = "error" /\ calls = 0)

\* C9 as stated: whenever the resolver returns anything that is not exactly 3
\* channel values each in [0,255], the call aborts at that pixel.
C9_Claim ==
    (op \in Algorithms /\ calls > 0 /\ ~IsColor(lastColor)) =>
        (pc = "error" /\ ret = None /\ calls = pos + 1)
\* C9 amended: whenever the resolver returns null or fewer than 3 channels at
\* a pixel, the call aborts with an error at that pixel (the resolver has been
\* invoked on the pixels up to that one and on no later pixel) and returns no
\* output buffer.
C9_AbortOnShortColor ==
    (op \in Algorithms /\ calls > 0 /\ (lastColor.tag = "null" \/ Len(lastColor.val) < 3)) =>
        (pc = "error" /\ ret = None /\ calls = pos + 1)
C9_Witness ==
    /\ op = "floydSteinberg" /\ pc = "error"
    /\ calls >= 2 /\ lastColor = Arr(<<7, 7>>)

\* C10 as stated: over a palette mixing well-formed entries and malformed ones
\* (null, or a channel count that is not 3) the result is the nearest
\* well-formed entry.
ExactlyThree(a) == {i \in Indices(a) : a.palette.val[i].tag = "array" /\ Len(a.palette.val[i].val) = 3}
AtLeastThree(a) == {i \in Indices(a) : a.palette.val[i].tag = "array" /\ Len(a.palette.val[i].val) >= 3}
C10_Claim ==
    (/\ Returned("findClosestColor")
     /\ args.palette.tag = "array"
     /\ ExactlyThree(args) # {}) =>
        NearestAmong(ExactlyThree(args), args, ret)
\* C10 amended: findClosestColor skips every null entry and every entry with
\* fewer than 3 channels, at any position including index 0; if the palette
\* has an entry with at least 3 channels the result is the nearest such entry
\* (by its first three channels), never a skipped one.
C10_SkipsShortEntries ==
    (/\ Returned("findClosestColor")
     /\ args.palette.tag = "array"
     /\ AtLeastThree(args) # {}) =>
        NearestAmong(AtLeastThree(args), args, ret)
C10_Witness ==
    /\ Returned("findClosestColor")
    /\ Len(args.palette.val) >= 2
    /\ args.palette.val[1] = JsNull
    /\ ret = Arr(<<255, 255, 255>>)

\* C11: if the whole palette passed to findClosestColor is unusable (missing,
\* not an array, empty, or non-empty with every entry null or without exactly
\* 3 channels), findClosestColor returns black [0,0,0] and raises no error.
Unusable(palette) ==
    \/ palette.tag # "array"
    \/ \A i \in 1..Len(palette.val) :
           palette.val[i].tag # "array" \/ Len(palette.val[i].val) # 3
C11_Claim ==
    (Returned("findClosestColor") /\ Unusable(args.palette)) => ret = Arr(<<0, 0, 0>>)

\* C12: two runs of the transform on the same inputs, the second on the
\* same buffer object after the first, return byte-identical output buffers.
SecondRun == Dithered /\ first # NoRun
C12_Deterministic ==
    (SecondRun /\ request = first.request) => ret = first.ret
C12_Witness ==
    /\ SecondRun /\ request = first.request
    /\ op = "floydSteinberg" /\ PixelCount(imageData) >= 3
    /\ data # imageData.data

\* the output of the row-major loops of bayer or ordered from pixel p on
RECURSIVE SequentialPass(_, _, _, _, _, _)
SequentialPass(matrix, n, img, res, out, p) ==
    IF p >= PixelCount(img) THEN out
    ELSE SequentialPass(matrix, n, img, res,
             PutPixel(out, p * 4, MatrixColor(res, img.data, matrix, n, img.width, p, p + 1),
                      Read(img.data, p * 4 + 3)),
             p + 1)
Sequential ==
    SequentialPass(IF op = "bayer" THEN bayerMatrix ELSE orderedMatrix,
                   IF op = "bayer" THEN 8 ELSE 4,
                   imageData, resolver, [i \in 1..Len(imageData.data) |-> 0], 0)
Bytes(buf, p) == <<buf[4 * p + 1], buf[4 * p + 2], buf[4 * p + 3], buf[4 * p + 4]>>

\* C13: bayer and ordered with a pure resolver: whatever the order in which
\* the pixels are processed, every processed pixel holds the bytes the
\* row-major pass gives it, and the returned buffer is byte-identical to the
\* output of the row-major pass.
C13_OrderIndependent ==
    (op \in {"bayer", "ordered"} /\ pc \in {"loop", "done"}) =>
        LET sequential == Sequential
        IN  /\ \A p \in visited : Bytes(output, p) = Bytes(sequential, p)
            /\ pc = "done" => ret.data = sequential
\* the last pixel processed first
C13_Witness ==
    /\ op = "ordered" /\ pc = "loop"
    /\ PixelCount(imageData) >= 3
    /\ visited = {PixelCount(imageData) - 1}
    /\ RGB(output, PixelCount(imageData) - 1) # <<0, 0, 0>>

\* C14: floydSteinberg with the monochrome resolver at threshold 128 on the
\* 2x2 image of four (128,128,128,255) pixels: pixel (0,0) resolves to white
\* (error -127 per channel), the working value of pixel (1,0) becomes 72 in
\* each channel, pixel (1,0) resolves to black, and the top row of the
\* output is [white, black].
GreyPixel == <<128, 128, 128, 255>>
C14_Scenario ==
    /\ op = "floydSteinberg" /\ pc \in {"loop", "done"}
    /\ imageData = Image(2, 2, GreyPixel \o GreyPixel \o GreyPixel \o GreyPixel)
    /\ resolver = MonoResolver(Num(128))
C14_Claim ==
    C14_Scenario =>
        /\ pos >= 1 => RGB(output, 0) = <<255, 255, 255>>
        /\ pos = 1 => RGB(data, 1) = <<72, 72, 72>>
        /\ pos >= 2 => RGB(output, 1) = <<0, 0, 0>>
        /\ pc = "done" => (RGB(ret.data, 0) = <<255, 255, 255>> /\ RGB(ret.data, 1) = <<0, 0, 0>>)

\* C15: from the entry of an algorithm on, whether the call returns or
\* aborts, no step changes the source buffer; and in floydSteinberg the
\* source, `data` and `output` are three different buffers.
ThreeBuffers ==
    /\ bufferOf.source # bufferOf.data
    /\ bufferOf.source # bufferOf.output
    /\ bufferOf.data # bufferOf.output
C15_SourceUntouched ==
    /\ []((op = "floydSteinberg" /\ bufferOf.data # "none") => ThreeBuffers)
    /\ [][pc # "idle" => imageData' = imageData]_vars
\* an aborted call that had written to both of its buffers
C15_Witness ==
    /\ op = "floydSteinberg" /\ pc = "error" /\ calls >= 2
    /\ data # imageData.data
    /\ output # imageData.data

\* C16: for palette id cga or websafe, two processing runs of the same
\* algorithm on the same image that differ only in the threshold return
\* byte-identical output.
C16_ThresholdUnused ==
    (/\ SecondRun
     /\ request.palette \in {"cga", "websafe"}
     /\ request.palette = first.request.palette
     /\ request.algorithm = first.request.algorithm) =>
        ret = first.ret
C16_Witness ==
    /\ SecondRun
    /\ request.palette = "websafe" /\ first.request.palette = "websafe"
    /\ request.threshold # first.request.threshold
    /\ ret = first.ret

\* C17: a run of any of the 9 combinations of algorithm id and palette id
\* with threshold 128 on a valid image ends: it returns an output buffer, no
\* error raised, having visited every pixel exactly once.
C17_Started ==
    /\ pc = "loop"
    /\ request.algorithm \in AlgorithmIds /\ request.palette \in PaletteIds
    /\ request.threshold = Num(128)
C17_Finished ==
    /\ pc = "done"
    /\ ret.tag = "ImageData" /\ Len(ret.data) = 4 * PixelCount(imageData)
    /\ visited = 0..(PixelCount(imageData) - 1)
    /\ pos = PixelCount(imageData)
    /\ calls = PixelCount(imageData)
C17_Terminates ==
    /\ [](C17_Started => (pos <= PixelCount(imageData) /\ calls = pos))
    /\ C17_Started ~> C17_Finished
C17_Witness ==
    /\ C17_Finished /\ request.threshold = Num(128)
    /\ request.algorithm = "floyd-steinberg" /\ request.palette = "websafe"
    /\ PixelCount(imageData) = 4

\* ------------------------------------------- one visit of floydSteinberg
\* a completed iteration of floydSteinberg on a well-formed buffer: the
\* pixel visited is number pos, (x,y) = (pos % width, pos \div width)
FSVisit ==
    /\ op = "floydSteinberg" /\ pc = "loop" /\ pos' # pos
    /\ WellFormedBuffer(imageData)
\* the quantization error of the visit on channel c
VisitError(c) == data[4 * pos + c] - Channel(lastColor', c)
\* the in-bounds neighbours of the visited pixel, each with its weight
Neighbours ==
    LET w == imageData.width
        h == imageData.height
        x == pos % w
        y == pos \div w
    IN  {n \in {<<x + 1, y, 7>>, <<x - 1, y + 1, 3>>, <<x, y + 1, 5>>, <<x + 1, y + 1, 1>>} :
            n[1] >= 0 /\ n[1] < w /\ n[2] < h}
PixelOf(n) == n[2] * imageData.width + n[1]

\* C18: floydSteinberg visits the pixels in row-major order; the colour
\* written to the output at the visited pixel is the resolver's answer for
\* the current working value of that pixel, and the error that is
\* distributed is that working value minus the chosen colour's channel.
C18_VisitInOrder ==
    [][FSVisit =>
        /\ pos' = pos + 1
        /\ visited = 0..(pos - 1)
        /\ lastColor' = Resolve(resolver, ToQ7(data[4 * pos + 1]), ToQ7(data[4 * pos + 2]),
                                ToQ7(data[4 * pos + 3]), calls')
        /\ \A c \in 1..3 : output'[4 * pos + c] = ToUint8Clamp(Channel(lastColor', c), 1)
        /\ (pos % imageData.width) + 1 < imageData.width =>
               \A c \in 1..3 :
                   data'[4 * (pos + 1) + c] =
                       ToUint8Clamp(16 * data[4 * (pos + 1) + c]
                                    + 7 * (data[4 * pos + c] - Channel(lastColor', c)), 16)
      ]_vars
\* a returned pixel that is not what the resolver answers for the source pixel
C18_Witness ==
    /\ Returned("floydSteinberg") /\ resolver.kind \in {"monochrome", "palette"}
    /\ WellFormedBuffer(imageData)
    /\ \E p \in 1..(PixelCount(imageData) - 1) :
           LET src == RGB(imageData.data, p)
           IN  Resolve(resolver, ToQ7(src[1]), ToQ7(src[2]), ToQ7(src[3]), p + 1)
                   # Arr(RGB(ret.data, p))

\* C19: a visit changes the working buffer only at the in-bounds pixels
\* among right, below-left, below and below-right, by 7/16, 3/16, 5/16 and
\* 1/16 of the error; each of them is not yet visited; no byte of a visited
\* pixel, working or output, is written again; the share of a neighbour
\* that is out of bounds goes nowhere.
C19_OnlyNeighbours ==
    [][FSVisit =>
        /\ \A n \in Neighbours :
               /\ PixelOf(n) > pos
               /\ \A c \in 1..3 :
                      data'[4 * PixelOf(n) + c] =
                          ToUint8Clamp(16 * data[4 * PixelOf(n) + c] + n[3] * VisitError(c), 16)
        /\ \A q \in 0..(PixelCount(imageData) - 1) :
               /\ Alpha(data', q) = Alpha(data, q)
               /\ q \notin {PixelOf(n) : n \in Neighbours} => RGB(data', q) = RGB(data, q)
               /\ q # pos => Bytes(output', q) = Bytes(output, q)
               /\ q < pos => Bytes(data', q) = Bytes(data, q)
      ]_vars
\* the last pixel of a row has been visited: nothing went to the right
C19_Witness ==
    /\ op = "floydSteinberg" /\ pc = "loop" /\ WellFormedBuffer(imageData)
    /\ imageData.width = 2 /\ imageData.height = 2 /\ pos = 2
    /\ RGB(data, 2) # RGB(imageData.data, 2)
    /\ RGB(data, 3) # RGB(imageData.data, 3)

\* s is n/d rounded to a nearest integer and clamped to [0,255]
NearestClamped(s, n, d) ==
    /\ s \in 0..255
    /\ IF n <= 0 THEN s = 0
       ELSE IF n >= 255 * d THEN s = 255
       ELSE 2 * (d * s - n) <= d /\ 2 * (n - d * s) <= d

\* C20: each error addition is stored rounded to the nearest integer and
\* clamped to [0,255]; every working value is an integer in [0,255] at every
\* scan position.
C20_RoundedAndClamped ==
    /\ []((op = "floydSteinberg" /\ pc \in {"loop", "done", "error"}) =>
              \A i \in 1..Len(data) : data[i] \in 0..255)
    /\ [][FSVisit =>
            \A n \in Neighbours : \A c \in 1..3 :
                NearestClamped(data'[4 * PixelOf(n) + c],
                               16 * data[4 * PixelOf(n) + c] + n[3] * VisitError(c), 16)
         ]_vars
\* a working value stopped at 255
C20_Witness ==
    /\ op = "floydSteinberg" /\ pc = "loop" /\ WellFormedBuffer(imageData)
    /\ pos = 1 /\ PixelCount(imageData) >= 2
    /\ lastColor = Arr(<<1, 2, 3>>)
    /\ RGB(imageData.data, 0) = <<128, 128, 128>>
    /\ RGB(imageData.data, 1) = <<170, 170, 255>>
    /\ imageData.width >= 2
    /\ RGB(data, 1) = <<226, 225, 255>>

\* ------------------------------------------------ thresholded resolution
MatrixOf(name) == IF name = "bayer" THEN bayerMatrix ELSE orderedMatrix
SizeOf(name) == IF name = "bayer" THEN 8 ELSE 4
\* clamp(v + ((m + 0.5)/N^2 - 0.5)*255, 0, 255) as an exact count of 1/128,
\* m being the matrix entry for pixel number p
Offset128(name, p) ==
    LET n == SizeOf(name)
        x == p % imageData.width
        y == p \div imageData.width
        m == MatrixOf(name)[(y % n) + 1][(x % n) + 1]
    IN  (255 * 128 * (2 * m + 1 - n * n)) \div (2 * n * n)
Adjusted128(name, p, c) ==
    LET a == 128 * imageData.data[4 * p + c] + Offset128(name, p)
    IN  IF a < 0 THEN 0 ELSE IF a > 255 * 128 THEN 255 * 128 ELSE a

Entries(palette) == {palette.val[i] : i \in 1..Len(palette.val)}

\* C22: over a non-empty palette of well-formed entries findClosestColor
\* returns an entry of the palette; with the cga() or webSafe() resolver the
\* RGB triple of every pixel returned by any algorithm is a colour of the
\* palette.
C22_PaletteMember ==
    /\ (/\ Returned("findClosestColor")
        /\ args.palette.tag = "array" /\ Len(args.palette.val) > 0
        /\ \A i \in Indices(args) : IsColor(args.palette.val[i]))
       => ret \in Entries(args.palette)
    /\ (Dithered /\ resolver.kind = "palette") =>
           \A p \in 0..(PixelCount(imageData) - 1) :
               Arr(RGB(ret.data, p)) \in Entries(PaletteOf(resolver.palette))
C22_Witness ==
    /\ Dithered /\ resolver.kind = "palette" /\ resolver.palette = "cga"
    /\ \E p \in 0..(PixelCount(imageData) - 1) : RGB(ret.data, p) = <<85, 255, 255>>

\* C23: between the page's tasks, whenever the download button is enabled
\* the dithered canvas holds the latest dithering result and that result has
\* the dimensions of the current source image data.
C23_Claim ==
    (~app.running /\ ~app.downloadBtnDisabled) =>
        LET result == app.currentDitheredImageData
        IN  /\ result.tag = "ImageData"
            /\ app.ditheredCanvas =
                   [width |-> result.width, height |-> result.height, data |-> result.data]
            /\ result.width = imageData.width
            /\ result.height = imageData.height

\* the second of two calls has returned
Reapplied == Dithered /\ op = "floydSteinberg" /\ first # NoRun

\* C24: floydSteinberg applied to its own output with the same cga() or
\* webSafe() resolver returns a buffer byte-identical to that output, and
\* the resolver finds every pixel of the second pass unchanged by diffusion.
C24_Idempotent ==
    /\ Reapplied => ret = first.ret
    /\ (first # NoRun /\ op = "floydSteinberg" /\ pc \in {"loop", "done"}) =>
           /\ data = first.ret.data
           /\ output = first.ret.data
C24_Witness ==
    /\ Reapplied
    /\ resolver.palette = "websafe"
    /\ \E p, q \in 0..(PixelCount(imageData) - 1) : RGB(ret.data, p) # RGB(ret.data, q)
    /\ \E p \in 0..(PixelCount(imageData) - 1) : Alpha(ret.data, p) = 77

====
